---- MODULE Spec2Model ----
(***************************************************************************)
(* Model of tools/codesigningtool/codesigningtool.py: the codesign wrapper *)
(* that resolves a signing identity from a provisioning profile and the    *)
(* host identity store and then execs the real codesign binary.            *)
(*                                                                         *)
(* Python strings are modelled as sequences of one-character strings, so   *)
(* that strip, replace, splitlines and re.search act on characters.        *)
(***************************************************************************)
EXTENDS Integers, Sequences, FiniteSets, TLC

\* ------------------------------------------------------------------ bounds
MaxCerts == 3
MaxLines == 2

\* ------------------------------------------------------- program constants
\* the {40} of the pattern r"([A-F0-9]{40})"
FingerprintLen == 40

\* Python's None, kept apart from every character string
None == <<"<None>">>

\* ------------------------------------------------------- string primitives
Range(s) == {s[i] : i \in 1..Len(s)}

Min(S) == CHOOSE x \in S : \A y \in S : x <= y

\* the character class [A-F0-9]
HexUpper == {"0","1","2","3","4","5","6","7","8","9","A","B","C","D","E","F"}

\* the characters str.strip() removes
Whitespace == {" ", "\n", "\t", "\r"}

\* s.strip()
Strip(s) ==
  LET keep == {i \in 1..Len(s) : s[i] \notin Whitespace}
  IN IF keep = {} THEN <<>>
     ELSE SubSeq(s, Min(keep),
                 CHOOSE x \in keep : \A y \in (x + 1)..Len(s) : s[y] \in Whitespace)

\* s starts with old at position i
MatchAt(s, old, i) ==
  /\ i + Len(old) - 1 <= Len(s)
  /\ \A k \in 1..Len(old) : s[i + k - 1] = old[k]

RECURSIVE ReplaceFrom(_, _, _)
ReplaceFrom(s, old, i) ==
  LET hits == {j \in i..Len(s) : MatchAt(s, old, j)}
  IN IF hits = {} THEN SubSeq(s, i, Len(s))
     ELSE SubSeq(s, i, Min(hits) - 1) \o ReplaceFrom(s, old, Min(hits) + Len(old))

\* s.replace(old, ""), old non-empty: leftmost non-overlapping occurrences
Replace(s, old) == ReplaceFrom(s, old, 1)

RECURSIVE SplitFrom(_, _)
SplitFrom(s, i) ==
  LET nls == {j \in i..Len(s) : s[j] = "\n"}
  IN IF i > Len(s) THEN <<>>
     ELSE IF nls = {} THEN <<SubSeq(s, i, Len(s))>>
     ELSE <<SubSeq(s, i, Min(nls) - 1)>> \o SplitFrom(s, Min(nls) + 1)

\* s.splitlines()
SplitLines(s) == SplitFrom(s, 1)

\* re.search(r"([A-F0-9]{40})", line): group(0) of the leftmost match, or None
ReSearch(line) ==
  LET starts == {i \in 1..(Len(line) - FingerprintLen + 1) :
                   \A k \in 0..(FingerprintLen - 1) : line[i + k] \in HexUpper}
  IN IF starts = {} THEN None
     ELSE SubSeq(line, Min(starts), Min(starts) + FingerprintLen - 1)

\* ------------------------------------------------------ external utilities
\* "SHA1 Fingerprint=", the label line 54 removes
LabelSHA1 == <<"S","H","A","1"," ","F","i","n","g","e","r","p","r","i","n","t","=">>

\* a 40-character fingerprint made of the byte b1 b2 repeated
Fp(b1, b2) == [i \in 1..FingerprintLen |-> IF i % 2 = 1 THEN b1 ELSE b2]

FpX == Fp("A", "1")
FpY == Fp("0", "F")
FpW == Fp("C", "7")

\* AA:BB:...:FF, the bytes of fp separated by colons
Colons(fp) ==
  [j \in 1..(3 * (Len(fp) \div 2) - 1) |->
     IF j % 3 = 0 THEN ":" ELSE fp[2 * ((j - 1) \div 3) + ((j - 1) % 3) + 1]]

\* certificate blobs embedded in profiles (opaque bytes)
CertX == <<"X">>
CertY == <<"Y">>
CertW == <<"W">>
CertBad == <<"!">>
Certs == {CertX, CertY, CertW, CertBad}

\* whether the blob is a DER certificate, and its SHA-1 digest if it is
ValidDER(blob) == blob # CertBad
Sha1(blob) == IF blob = CertX THEN FpX ELSE IF blob = CertY THEN FpY ELSE FpW

\* exit status of `openssl x509 -inform DER -noout -fingerprint` on a blob
OpensslStatus(blob) == IF ValidDER(blob) THEN "ok" ELSE "nonzero"

\* its standard output: nothing for invalid DER (the error goes to stderr)
OpensslStdout(blob) ==
  IF ValidDER(blob) THEN LabelSHA1 \o Colons(Sha1(blob)) \o <<"\n">> ELSE <<>>

\* lines printed by `security find-identity -v -p codesigning`
LineX == <<" "," ","1",")"," ">> \o FpX \o <<" ","\"","D","e","v","\"">>
LineY == <<" "," ","2",")"," ">> \o FpY \o <<" ","\"","D","e","v","\"">>
LineFooter == <<" "," "," ","1"," ","v","a","l","i","d">>
LineShort == <<" "," ","3",")"," ">> \o SubSeq(FpW, 1, FingerprintLen - 1) \o <<" ","\"","D","\"">>
LineLong == <<" "," ","4",")"," ">> \o FpX \o <<"A">> \o <<" ","\"","D","\"">>
Lines == {LineX, LineY, LineFooter, LineShort, LineLong}

\* all sequences over S of length at most n
SeqsUpTo(S, n) == UNION {[1..k -> S] : k \in 0..n}

\* decoded DeveloperCertificates lists and identity listings the host can give
Profiles == SeqsUpTo(Certs, MaxCerts)
Listings == SeqsUpTo(Lines, MaxLines)

RECURSIVE JoinLines(_)
JoinLines(ls) == IF ls = <<>> THEN <<>> ELSE Head(ls) \o <<"\n">> \o JoinLines(Tail(ls))

\* ---------------------------------------------------------- command lines
OptMobileprovision == <<"-","-","m","o","b","i","l","e","p","r","o","v","i","s","i","o","n">>
OptCodesign == <<"-","-","c","o","d","e","s","i","g","n">>
OptIdentity == <<"-","-","i","d","e","n","t","i","t","y">>
Options == {OptMobileprovision, OptCodesign, OptIdentity}

ProfilePath == <<"d","e","v",".","m","o","b","i","l","e","p","r","o","v","i","s","i","o","n">>
CodesignPath == <<"/","u","s","r","/","b","i","n","/","c","o","d","e","s","i","g","n">>
OverrideZ == <<"Z">>
ArgForce == <<"-","-","f","o","r","c","e">>
ArgEntitlements == <<"-","-","e","n","t","i","t","l","e","m","e","n","t","s">>
ArgPlist == <<"e",".","p","l","i","s","t">>

\* sys.argv[1:] of the invocations considered
Argvs ==
  { <<ArgForce, OptMobileprovision, ProfilePath, ArgEntitlements, ArgPlist,
      OptCodesign, CodesignPath>>,
    <<OptMobileprovision, ProfilePath, OptCodesign, CodesignPath,
      OptIdentity, OverrideZ>>,
    <<OptIdentity, FpY, ArgForce, OptCodesign, CodesignPath, ArgPlist>>,
    <<OptCodesign, CodesignPath, OptIdentity>> }

\* os.environ of the wrapper
Environs == { {<<"PATH", "/usr/bin">>},
              {<<"PATH", "/usr/bin">>, <<"DEVELOPER_DIR", "/Xcode">>} }

\* -------------------------------------------------------- pure functions
\* the label is left in: only the colons are removed
CertificateFingerprintKeepsLabel(out) == Replace(Strip(out), <<":">>)

\* lines 53-56: strip the utility's output, drop the label, drop the colons
_certificate_fingerprint(out) == Replace(Replace(Strip(out), LabelSHA1), <<":">>)

RECURSIVE ScanLines(_)
ScanLines(ls) ==
  IF ls = <<>> THEN <<>>
  ELSE (IF ReSearch(Head(ls)) = None THEN <<>> ELSE <<ReSearch(Head(ls))>>)
       \o ScanLines(Tail(ls))

\* lines 67-75: the ids list built from the listing utility's output
_find_codesign_identities(out) == ScanLines(SplitLines(Strip(out)))

\* the two functions above, tabulated over the blobs and listings considered
CertificateFingerprints ==
  [blob \in Certs |-> _certificate_fingerprint(OpensslStdout(blob))]
ListedIdentities ==
  [ls \in Listings |-> _find_codesign_identities(JoinLines(ls))]

\* never equal, as when undecoded bytes are compared with str
MatchesNever(id_mpf, ids) == FALSE

\* a prefix test instead of membership
MatchesPrefix(id_mpf, ids) == \E x \in ids : MatchAt(x, id_mpf, 1)

\* line 84: id_mpf in ids_codesign
Matches(id_mpf, ids) == id_mpf \in ids

\* the override is ignored
AlwaysResolve(id) == TRUE

\* line 95: identity is None
NeedsResolution(id) == id = None

\* tests for the empty string instead of None
NoIdentityEmpty(id) == id = <<>>

\* line 98: identity == None
NoIdentity(id) == id = None

\* line 99: the diagnostic, "... matching the ones in %s" % args.mobileprovision
MessagePrefix == <<"U","n","a","b","l","e"," ","t","o"," ","f","i","n","d"," ","i","d","e","n","t","i","t","y"," ","o","n"," ","t","h","e"," ","s","y","s","t","e","m"," ","m","a","t","c","h","i","n","g"," ","t","h","e"," ","o","n","e","s"," ","i","n"," ">>
Message(path) == MessagePrefix \o path

FlagV == <<"-","v">>
FlagSign == <<"-","-","s","i","g","n">>

\* the forwarded arguments are left out
ExecArgvNoExtras(codesign, id, extra) == <<codesign, FlagV, FlagSign, id>>

\* line 101: the argument vector handed to os.execve
ExecArgv(codesign, id, extra) == <<codesign, FlagV, FlagSign, id>> \o extra

EmptyArgs == [identity |-> None, mobileprovision |-> None, codesign |-> None]

Dest(opt) ==
  IF opt = OptMobileprovision THEN "mobileprovision"
  ELSE IF opt = OptCodesign THEN "codesign" ELSE "identity"

RECURSIVE ParseFrom(_, _, _, _)
ParseFrom(av, i, ns, extras) ==
  IF i > Len(av) THEN [error |-> FALSE, args |-> ns, extras |-> extras]
  ELSE IF av[i] \in Options
       THEN IF i + 1 > Len(av)
            THEN [error |-> TRUE, args |-> ns, extras |-> extras]
            ELSE ParseFrom(av, i + 2, [ns EXCEPT ![Dest(av[i])] = av[i + 1]], extras)
       ELSE ParseFrom(av, i + 1, ns, Append(extras, av[i]))

\* lines 89-93: parser.parse_known_args() for the three declared options
parse_known_args(av) == ParseFrom(av, 1, EmptyArgs, <<>>)

\* ------------------------------------------------------------------ state
VARIABLES argv, environ, pc, args, codesign_args, mpf, ids_codesign, idx,
          identity, calls, stdout, execs, outcome, exit_code

vars == <<argv, environ, pc, args, codesign_args, mpf, ids_codesign, idx,
          identity, calls, stdout, execs, outcome, exit_code>>

\* exit_code while the process has not exited
NoExit == -1

Init ==
  /\ argv \in Argvs
  /\ environ \in Environs
  /\ pc = "main"
  /\ args = EmptyArgs
  /\ codesign_args = <<>>
  /\ mpf = <<>>
  /\ ids_codesign = {}
  /\ idx = 1
  /\ identity = None
  /\ calls = <<>>
  /\ stdout = <<>>
  /\ execs = <<>>
  /\ outcome = "RESOLVING"
  /\ exit_code = NoExit

\* a subprocess invocation as the wrapper sees it
Call(tool, input, status, out) ==
  [tool |-> tool, input |-> input, status |-> status, out |-> out]

\* an exception nobody catches: traceback, interpreter exit status 1
Raise ==
  /\ pc' = "done"
  /\ outcome' = "ABORTED"
  /\ exit_code' = 1

\* lines 89-96: parse the command line, take --identity if given
ParseArgs ==
  /\ pc = "main"
  /\ LET r == parse_known_args(argv)
     IN IF r.error
        THEN /\ pc' = "done"
             /\ outcome' = "ABORTED"
             /\ exit_code' = 2
             /\ UNCHANGED <<args, codesign_args, identity>>
        ELSE /\ args' = r.args
             /\ codesign_args' = r.extras
             /\ identity' = r.args.identity
             /\ pc' = IF NeedsResolution(r.args.identity)
                      THEN "_parse_mobileprovision_file" ELSE "check"
             /\ UNCHANGED <<outcome, exit_code>>
  /\ UNCHANGED <<argv, environ, mpf, ids_codesign, idx, calls, stdout, execs>>

\* lines 33-45, 81: security cms -D -i <profile> through subprocess.check_output
ParseMobileprovisionFile ==
  /\ pc = "_parse_mobileprovision_file"
  /\ \E st \in {"oserror", "nonzero", "ok"} :
       /\ calls' = Append(calls, Call("cms", args.mobileprovision, st, <<>>))
       /\ IF st = "ok"
          THEN /\ mpf' \in Profiles
               /\ pc' = "_find_codesign_identities"
               /\ UNCHANGED <<outcome, exit_code>>
          ELSE /\ Raise
               /\ UNCHANGED mpf
  /\ UNCHANGED <<argv, environ, args, codesign_args, ids_codesign, idx,
                 identity, stdout, execs>>

\* lines 25-30, 65-75, 82: security find-identity through _check_output,
\* which returns the standard output whatever the exit status
FindCodesignIdentities ==
  /\ pc = "_find_codesign_identities"
  /\ \/ /\ calls' = Append(calls, Call("find-identity", <<>>, "oserror", <<>>))
        /\ Raise
        /\ UNCHANGED ids_codesign
     \/ \E st \in {"nonzero", "ok"} : \E ls \in Listings :
          LET out == IF st = "ok" THEN JoinLines(ls) ELSE <<>>
          IN /\ st = "nonzero" => ls = <<>>
             /\ calls' = Append(calls, Call("find-identity", <<>>, st, out))
             /\ ids_codesign' = Range(ListedIdentities[ls])
             /\ pc' = "loop"
             /\ UNCHANGED <<outcome, exit_code>>
  /\ UNCHANGED <<argv, environ, args, codesign_args, mpf, idx, identity,
                 stdout, execs>>

\* lines 59-62, 83: the generator has no certificate left; the function
\* falls off its end and returns None
GeneratorExhausted ==
  /\ pc = "loop"
  /\ idx > Len(mpf)
  /\ identity' = None
  /\ pc' = "check"
  /\ UNCHANGED <<argv, environ, args, codesign_args, mpf, ids_codesign, idx,
                 calls, stdout, execs, outcome, exit_code>>

\* lines 48-56, 61-62, 83-85: fingerprint the next certificate through
\* _check_output and return it if the host lists it
FingerprintStep ==
  /\ pc = "loop"
  /\ idx <= Len(mpf)
  /\ \/ /\ calls' = Append(calls, Call("openssl", mpf[idx], "oserror", <<>>))
        /\ Raise
        /\ UNCHANGED <<idx, identity>>
     \/ LET out == OpensslStdout(mpf[idx])
            id_mpf == CertificateFingerprints[mpf[idx]]
        IN /\ calls' = Append(calls, Call("openssl", mpf[idx], OpensslStatus(mpf[idx]), out))
           /\ IF Matches(id_mpf, ids_codesign)
              THEN /\ identity' = id_mpf
                   /\ pc' = "check"
                   /\ UNCHANGED idx
              ELSE /\ idx' = idx + 1
                   /\ UNCHANGED <<identity, pc>>
           /\ UNCHANGED <<outcome, exit_code>>
  /\ UNCHANGED <<argv, environ, args, codesign_args, mpf, ids_codesign,
                 stdout, execs>>

\* the return is missing: the diagnostic is printed and os.execve is reached
\* with None as the identity, which raises TypeError
ReportFailureNoReturn ==
  /\ pc = "check"
  /\ NoIdentity(identity)
  /\ stdout' = Append(stdout, Message(args.mobileprovision))
  /\ Raise
  /\ UNCHANGED <<argv, environ, args, codesign_args, mpf, ids_codesign, idx,
                 identity, calls, execs>>

\* lines 98-100: no identity, print the diagnostic and return 1
ReportFailure ==
  /\ pc = "check"
  /\ NoIdentity(identity)
  /\ stdout' = Append(stdout, Message(args.mobileprovision))
  /\ exit_code' = 1
  /\ outcome' = "FAILED"
  /\ pc' = "done"
  /\ UNCHANGED <<argv, environ, args, codesign_args, mpf, ids_codesign, idx,
                 identity, calls, execs>>

\* line 101: os.execve replaces the process image, or raises OSError
Execve ==
  /\ pc = "check"
  /\ ~NoIdentity(identity)
  /\ execs' = Append(execs, [path |-> args.codesign,
                             argv |-> ExecArgv(args.codesign, identity, codesign_args),
                             env |-> environ])
  /\ \E ok \in BOOLEAN :
       /\ outcome' = IF ok THEN "SIGNING" ELSE "ABORTED"
       /\ exit_code' = IF ok THEN NoExit ELSE 1
  /\ pc' = "done"
  /\ UNCHANGED <<argv, environ, args, codesign_args, mpf, ids_codesign, idx,
                 identity, calls, stdout>>

Next ==
  \/ ParseArgs
  \/ ParseMobileprovisionFile
  \/ FindCodesignIdentities
  \/ GeneratorExhausted
  \/ FingerprintStep
  \/ ReportFailure
  \/ Execve

Spec == Init /\ [][Next]_vars

\* ---------------------------------------------------------- history views
Terminal == {"SIGNING", "FAILED", "ABORTED"}

CallsOf(tool) == SelectSeq(calls, LAMBDA c : c.tool = tool)

OpensslCalls == CallsOf("openssl")
ListingCalls == CallsOf("find-identity")

\* the value that follows option opt on the command line, or None
ValueInArgv(opt) ==
  IF \E i \in 1..(Len(argv) - 1) : argv[i] = opt
  THEN argv[1 + Min({i \in 1..(Len(argv) - 1) : argv[i] = opt})]
  ELSE None

\* the command line is one argparse accepts: every option has its value
WellFormedArgv == \A i \in 1..Len(argv) : argv[i] \in Options => i < Len(argv)

\* the tokens of the command line that are neither an option nor its value
RECURSIVE UnrecognizedFrom(_)
UnrecognizedFrom(i) ==
  IF i > Len(argv) THEN <<>>
  ELSE (IF argv[i] \notin Options /\ (i = 1 \/ argv[i - 1] \notin Options)
        THEN <<argv[i]>> ELSE <<>>) \o UnrecognizedFrom(i + 1)
UnrecognizedArgs == UnrecognizedFrom(1)

\* the command line has been parsed and carries no --identity
Resolving == pc # "main" /\ WellFormedArgv /\ ValueInArgv(OptIdentity) = None

\* the profile has been decoded and the identity store has answered
Listed == Resolving /\ ListingCalls # <<>> /\ ListingCalls[1].status # "oserror"

\* _find_codesign_identity has returned to main
Returned ==
  /\ Listed
  /\ pc \in {"check", "done"}
  /\ \A k \in 1..Len(calls) : calls[k].status # "oserror"

\* certificate i of the profile has a fingerprint the host lists
IsMatch(i) == ValidDER(mpf[i]) /\ Sha1(mpf[i]) \in ids_codesign

MatchIndexes == {i \in 1..Len(mpf) : IsMatch(i)}

\* s occurs in t as a run of consecutive characters
Occurs(s, t) == \E i \in 1..(Len(t) - Len(s) + 1) : MatchAt(t, s, i)

\* ----------------------------------------------------------------- claims

\* C1: when the profile's certificate fingerprints and the identities listed
\* by the host have an element in common, _find_codesign_identity returns the
\* SHA-1 fingerprint of the first certificate, in profile order, that the
\* host lists, whatever the order or repetition of the listing's lines.
C1_FirstMatchInProfileOrder ==
  (Returned /\ MatchIndexes # {}) => identity = Sha1(mpf[Min(MatchIndexes)])

\* the second of three certificates is returned, although the third is listed
\* too and the host lists the third one's identity first
C1_Witness ==
  /\ Returned
  /\ Len(mpf) = 3
  /\ MatchIndexes = {2, 3}
  /\ identity = Sha1(mpf[2])
  /\ _find_codesign_identities(ListingCalls[1].out) = <<Sha1(mpf[3]), Sha1(mpf[2])>>

\* C2: without --identity, when no certificate of the profile has a
\* fingerprint the host lists, resolution returns None, main prints the
\* diagnostic that names the profile path and returns 1, and os.execve is
\* never called.
C2_NoMatchFails ==
  (Listed /\ MatchIndexes = {}) =>
     /\ execs = <<>>
     /\ Returned => identity = None
     /\ (Returned /\ pc = "done") =>
          /\ outcome = "FAILED"
          /\ exit_code = 1
          /\ stdout = <<MessagePrefix \o ValueInArgv(OptMobileprovision)>>

\* a profile of two certificates, a host that lists another identity, exit 1
C2_Witness ==
  /\ Returned
  /\ pc = "done"
  /\ Len(mpf) = 2
  /\ ids_codesign # {}
  /\ MatchIndexes = {}
  /\ outcome = "FAILED"

\* C3: when --identity is supplied no utility is ever run (no profile
\* decoding, no identity listing, no fingerprinting) and os.execve receives
\* exactly the supplied value as the identity.
C3_OverrideShortCircuits ==
  (WellFormedArgv /\ ValueInArgv(OptIdentity) # None) =>
     /\ calls = <<>>
     /\ pc \notin {"_parse_mobileprovision_file", "_find_codesign_identities", "loop"}
     /\ pc = "done" =>
          /\ Len(execs) = 1
          /\ execs[1].argv[4] = ValueInArgv(OptIdentity)

\* the override is handed to codesign next to a profile that was not read
C3_Witness ==
  /\ ValueInArgv(OptIdentity) = OverrideZ
  /\ ValueInArgv(OptMobileprovision) # None
  /\ outcome = "SIGNING"
  /\ execs[1].argv[4] = OverrideZ
  /\ calls = <<>>

\* C4: whenever an identity is available, os.execve is called once with the
\* codesign path, the vector [codesign, "-v", "--sign", identity] followed by
\* the unrecognized command-line arguments in their original order, and the
\* wrapper's own environment.
C4_ExecArguments ==
  /\ (pc = "done" /\ identity # None) => Len(execs) = 1
  /\ \A k \in 1..Len(execs) :
       /\ execs[k].path = ValueInArgv(OptCodesign)
       /\ execs[k].argv = <<ValueInArgv(OptCodesign), FlagV, FlagSign, identity>>
                          \o UnrecognizedArgs
       /\ execs[k].env = environ
       /\ identity # None

\* a resolved identity is passed on with three forwarded arguments
C4_Witness ==
  /\ outcome = "SIGNING"
  /\ Resolving
  /\ Len(execs[1].argv) = 7
  /\ execs[1].argv[5] = ArgForce
  /\ execs[1].argv[7] = ArgPlist
  /\ Cardinality(execs[1].env) = 2

\* the maximal runs of [A-F0-9] characters of a line, as index pairs
HexRuns(line) ==
  {r \in (1..Len(line)) \X (1..Len(line)) :
     /\ r[1] <= r[2]
     /\ \A k \in r[1]..r[2] : line[k] \in HexUpper
     /\ (r[1] = 1 \/ line[r[1] - 1] \notin HexUpper)
     /\ (r[2] = Len(line) \/ line[r[2] + 1] \notin HexUpper)}

\* what the claim lets a line contribute: its hex runs of exactly 40 characters
RunsOf40(line) ==
  {SubSeq(line, r[1], r[2]) : r \in {q \in HexRuns(line) : q[2] - q[1] + 1 = FingerprintLen}}

\* C5: every line of the listing contributes its 40-character hex run if it
\* has one and nothing otherwise; a shorter or a longer hex run contributes
\* no identity.
C5_OnlyRunsOfExactly40 ==
  Listed =>
    ids_codesign = UNION {RunsOf40(SplitLines(ListingCalls[1].out)[n]) :
                            n \in 1..Len(SplitLines(ListingCalls[1].out))}

\* C6: a failure of the fingerprint utility on a certificate aborts the whole
\* resolution: no later certificate is tried and no identity is returned.
C6_FingerprintFailureAborts ==
  \A k \in 1..Len(OpensslCalls) :
     OpensslCalls[k].status # "ok" =>
        /\ k = Len(OpensslCalls)
        /\ outcome = "ABORTED"
        /\ identity = None

\* C7: a failure of the identity-listing utility terminates the invocation at
\* once; it is not taken for an empty identity set and does not end in the
\* "no identity found" exit.
C7_ListingFailurePropagates ==
  \A k \in 1..Len(ListingCalls) :
     ListingCalls[k].status # "ok" =>
        /\ outcome = "ABORTED"
        /\ OpensslCalls = <<>>
        /\ stdout = <<>>

\* C8 as stated: an invocation that has ended has either exec'd the signing
\* binary or printed the diagnostic and returned 1.
C8_TwoTerminalStates ==
  (pc = "done" /\ WellFormedArgv) =>
     \/ outcome = "SIGNING" /\ Len(execs) = 1
     \/ outcome = "FAILED" /\ exit_code = 1 /\ Len(stdout) = 1 /\ execs = <<>>

C8_StateInvariant ==
  /\ outcome \in {"RESOLVING"} \cup Terminal
  /\ pc = "main" => outcome = "RESOLVING"
  /\ pc = "done" <=> outcome \in Terminal
  /\ outcome = "SIGNING" => Len(execs) = 1 /\ exit_code = NoExit /\ stdout = <<>>
  /\ outcome = "FAILED" => execs = <<>> /\ exit_code = 1 /\ Len(stdout) = 1
  /\ outcome = "ABORTED" =>
       /\ exit_code \in {1, 2}
       /\ stdout = <<>>
       /\ \/ ~WellFormedArgv /\ calls = <<>> /\ execs = <<>>
          \/ calls # <<>> /\ calls[Len(calls)].status # "ok" /\ execs = <<>>
          \/ Len(execs) = 1
  /\ outcome = "RESOLVING" => exit_code = NoExit /\ execs = <<>> /\ stdout = <<>>
  /\ Len(execs) <= 1
  /\ Len(CallsOf("cms")) <= 1
  /\ Len(ListingCalls) <= 1
  /\ Len(OpensslCalls) <= Len(mpf)
  /\ \A k \in 1..Len(OpensslCalls) : OpensslCalls[k].input = mpf[k]

\* C8 (amended): every invocation starts in RESOLVING and ends in exactly one
\* of SIGNING (one os.execve), FAILED (the diagnostic and exit code 1) or
\* ABORTED (an error of argument parsing, of a utility or of os.execve that
\* nobody catches); no utility is run twice on the same input, os.execve is
\* called at most once, and no step is taken from a terminal state.
C8_ThreeTerminalStates ==
  /\ []C8_StateInvariant
  /\ [][outcome = "RESOLVING" /\ outcome' \in {"RESOLVING"} \cup Terminal]_vars

\* an invocation ended by the decode utility's failure, after one call
C8_Witness ==
  /\ outcome = "ABORTED"
  /\ Len(calls) = 1
  /\ calls[1].tool = "cms"
  /\ calls[1].status = "nonzero"
  /\ execs = <<>>

\* C9: the fingerprint utility is run on the certificates one at a time in
\* profile order, once each, up to and including the first certificate the
\* host lists and on none after it.
C9_LazyFingerprinting ==
  Listed =>
    /\ \A k \in 1..Len(OpensslCalls) :
         /\ k <= Len(mpf)
         /\ OpensslCalls[k].input = mpf[k]
         /\ \A j \in 1..(k - 1) : ~IsMatch(j)
    /\ Returned =>
         Len(OpensslCalls) = IF MatchIndexes = {} THEN Len(mpf) ELSE Min(MatchIndexes)

\* the utility ran on the first two certificates of three and not on the third
C9_Witness ==
  /\ Returned
  /\ Len(mpf) = 3
  /\ MatchIndexes = {2, 3}
  /\ Len(OpensslCalls) = 2
  /\ OpensslCalls[2].input = mpf[2]

\* C10: an identity that reaches os.execve without --identity is a string of
\* exactly 40 characters of [A-F0-9] that occurs in the output of the
\* listing utility; the empty fingerprint of a failed run is never selected.
C10_ResolvedIdentityIsListedFingerprint ==
  (Resolving /\ execs # <<>>) =>
     LET id == execs[1].argv[4]
     IN /\ Len(id) = FingerprintLen
        /\ \A k \in 1..Len(id) : id[k] \in HexUpper
        /\ Listed
        /\ Occurs(id, ListingCalls[1].out)

\* an identity is selected after a certificate whose fingerprint came out empty
C10_Witness ==
  /\ Resolving
  /\ execs # <<>>
  /\ Len(OpensslCalls) = 2
  /\ OpensslCalls[1].status = "nonzero"
  /\ OpensslCalls[1].out = <<>>
  /\ execs[1].argv[4] = Sha1(mpf[2])

====
